---------------------------- MODULE Spec2Model ----------------------------
(* A model of BinaryBlast.py: the reader of compiled protein BLAST           *)
(* databases (.pin index, .psq sequence data, .phr header blobs).            *)
(*                                                                         *)
(* Byte strings are sequences of integers 0..255.  A Python str is a        *)
(* tagged record holding its code points, a Python list a tagged record    *)
(* holding its items, so that a string and a list of strings are never     *)
(* the same value.  Stream and slice positions are 0-based as in the code. *)
EXTENDS Integers, Sequences, FiniteSets, TLC

VARIABLES
    \* the three files and the constructor's arguments
    index, sequence, headers, load_headers, split_headers,
    \* what the files were built from (ghost: never read by an action)
    fixture,
    \* the handle
    pc, title, sequence_number, header_offsets, sequence_offsets,
    header_dict, iter_coord,
    \* the outcome of the last call on the handle, and the records the
    \* current and the previous pass of iteration returned (ghost)
    result, yielded, previous,
    \* one run of _vs_to_str, one loop iteration per step
    vs_s, vs_split, vs_pc, looked, r, vs_it

handleVars == <<index, sequence, headers, load_headers, split_headers, fixture,
                pc, title, sequence_number, header_offsets, sequence_offsets,
                header_dict, iter_coord, result, yielded, previous>>
decoderVars == <<vs_s, vs_split, vs_pc, looked, r, vs_it>>
vars == <<handleVars, decoderVars>>

-----------------------------------------------------------------------------
(* Python values *)

None == [kind |-> "none"]
Str(chars) == [kind |-> "str", chars |-> chars]
List(items) == [kind |-> "list", items |-> items]
IsStr(v) == v.kind = "str"
IsList(v) == v.kind = "list"

Min(S) == CHOOSE x \in S : \A y \in S : x <= y

\* bytes[a:b] for 0 <= a: the slice stops at the end of the bytes
Slice(s, a, b) == SubSeq(s, a + 1, IF b < Len(s) THEN b ELSE Len(s))

\* bytes.find(bytes([b]), from): the first position >= from holding b, or -1
Find(s, b, from) ==
    LET hits == {i \in from..(Len(s) - 1) : s[i + 1] = b}
    IN  IF hits = {} THEN -1 ELSE Min(hits)

\* needle in hay, for bytes and for str alike (the empty needle is in everything)
Contains(hay, needle) ==
    \E i \in 0..(Len(hay) - Len(needle)) :
        SubSeq(hay, i + 1, i + Len(needle)) = needle

\* int.from_bytes(b, 'big'); the empty bytes give 0
RECURSIVE FromBytesUpTo(_, _)
FromBytesUpTo(b, n) ==
    IF n = 0 THEN 0 ELSE 256 * FromBytesUpTo(b, n - 1) + b[n]
FromBytes(b) == FromBytesUpTo(b, Len(b))

\* bytes.decode(encoding='ascii') succeeds exactly on bytes below 128 and
\* then gives the str with the same code points
IsAscii(b) == \A i \in 1..Len(b) : b[i] < 128

\* str.split(' '): cut at every single space, empty pieces kept
RECURSIVE SplitSpace(_)
SplitSpace(chars) ==
    LET at == Find(chars, 32, 0)
    IN  IF at = -1 THEN <<Str(chars)>>
        ELSE <<Str(SubSeq(chars, 1, at))>>
                 \o SplitSpace(SubSeq(chars, at + 2, Len(chars)))

-----------------------------------------------------------------------------
(* _vs_to_str *)

\* 'BL_ORD_ID'
Marker == <<66, 76, 95, 79, 82, 68, 95, 73, 68>>
Tag == 26

\* line 181: where the search for the next tag resumes
VsLooked(start, len_len, str_len) == start + len_len + str_len + 2

\* (a slip: only a field that is the marker and nothing else is dropped)
VsDroppedWhenEqual(vs) == vs = Marker
\* line 182: a field holding the marker is dropped
VsDropped(vs) == Contains(vs, Marker)

\* lines 185-188: the field is appended, whole or as the list of its pieces
VsAppend(acc, vs, split) ==
    IF split = "space" THEN Append(acc, List(SplitSpace(vs)))
    ELSE Append(acc, Str(vs))

\* the locals of one pass through the loop: the field found at start
NoField == [start |-> -1, len_len |-> 0, str_len |-> 0,
            from |-> 0, to |-> 0, vs |-> None]

\* The state after one pass through the body of the while loop.  status:
\* "loop" (go round again), "done" (break), or the exception that ends the
\* call ("SystemExit" is quit()).
VsState(status, lk, acc, it) ==
    [status |-> status, looked |-> lk, r |-> acc, it |-> it]

\* line 167: s[start+1]>>7 is 0
VsShort(d) == (d \div 128) = 0
\* lines 168 and 172
VsLenLen(d) == IF VsShort(d) THEN 1 ELSE d % 128
\* lines 169 and 173
VsStrLen(s, start, d) ==
    IF VsShort(d) THEN d
    ELSE FromBytes(Slice(s, start + 2, start + (d % 128) + 2))
\* lines 170 and 175: the bounds of the slice that is decoded
VsFrom(start, d, len_len) ==
    IF VsShort(d) THEN start + 2 ELSE start + len_len + 2
VsTo(start, d, len_len, str_len) ==
    IF VsShort(d) THEN start + len_len + str_len + 1
    ELSE start + len_len + str_len + 2

\* lines 170-188, the slice raw in hand: the short form lets the decode error
\* out, the long form prints and quits
VsDecoded(split, lk, acc, d, it, raw) ==
    IF ~IsAscii(raw)
    THEN VsState(IF VsShort(d) THEN "UnicodeDecodeError" ELSE "SystemExit",
                 lk, acc, it)
    ELSE VsState("loop", VsLooked(it.start, it.len_len, it.str_len),
                 IF VsDropped(raw) THEN acc ELSE VsAppend(acc, raw, split),
                 [it EXCEPT !.vs = Str(raw)])

VsSized(s, split, lk, acc, start, d, len_len, str_len) ==
    VsDecoded(split, lk, acc, d,
              [start |-> start, len_len |-> len_len, str_len |-> str_len,
               from |-> VsFrom(start, d, len_len),
               to |-> VsTo(start, d, len_len, str_len), vs |-> None],
              Slice(s, VsFrom(start, d, len_len), VsTo(start, d, len_len, str_len)))

\* lines 167-173, the descriptor byte d = s[start+1] in hand
VsDescriptor(s, split, lk, acc, start, d) ==
    VsSized(s, split, lk, acc, start, d, VsLenLen(d), VsStrLen(s, start, d))

\* lines 165-167, the result of find in hand: no tag ends the loop, a tag
\* in the last byte has no s[start+1]
VsFound(s, split, lk, acc, start) ==
    IF start = -1 THEN VsState("done", lk, acc, NoField)
    ELSE IF start + 1 >= Len(s)
    THEN VsState("IndexError", lk, acc, [NoField EXCEPT !.start = start])
    ELSE VsDescriptor(s, split, lk, acc, start, s[start + 2])

\* lines 164-188: one pass, from the cursor lk and the list acc
VsBody(s, split, lk, acc) == VsFound(s, split, lk, acc, Find(s, Tag, lk))

RECURSIVE VsRun(_, _, _, _)
\* line 163
VsAgain(s, split, st) ==
    IF st.status = "loop" THEN VsRun(s, split, st.looked, st.r) ELSE st
VsRun(s, split, lk, acc) == VsAgain(s, split, VsBody(s, split, lk, acc))

\* The call as a whole: [status |-> "done", r |-> the list] or an exception
vs_to_str(s, split) == VsRun(s, split, 0, <<>>)

-----------------------------------------------------------------------------
(* The files.  Every read of the sequence and header files follows a seek   *)
(* to an absolute position, so their cursors carry nothing between calls;   *)
(* the index is read once, by the constructor, which tracks its cursor.     *)

\* file.read(n) with the cursor at pos: at most n bytes, all the rest of the
\* file when n is negative, nothing at or past the end
FRead(f, pos, n) ==
    IF pos >= Len(f) THEN <<>>
    ELSE Slice(f, pos, IF n < 0 THEN Len(f) ELSE pos + n)

Tuple(e) == [kind |-> "tuple", at |-> e]

\* line 52 and line 58: the entry made of the previous offset i and the next a
HeaderEntry(i, a) == <<i, a - i>>
\* (a slip: the NUL that ends the sequence is kept in the entry)
SequenceEntryWithTerminator(i, a) == <<i, a - i>>
SequenceEntry(i, a) == <<i, a - i - 1>>

\* lines 50-53 and 56-59: n more offsets are read from the cursor
RECURSIVE ReadEntries(_, _, _, _, _, _)
ReadEntry(f, pos, i, n, acc, ofSequences, b) ==
    ReadEntries(f, pos + Len(b), FromBytes(b), n - 1,
                Append(acc, IF ofSequences THEN SequenceEntry(i, FromBytes(b))
                            ELSE HeaderEntry(i, FromBytes(b))),
                ofSequences)
ReadEntries(f, pos, i, n, acc, ofSequences) ==
    IF n = 0 THEN [table |-> acc, pos |-> pos]
    ELSE ReadEntry(f, pos, i, n, acc, ofSequences, FRead(f, pos, 4))

\* lines 49-53 and 55-59: the leading offset, then the loop
ReadFirst(f, pos, n, ofSequences, b) ==
    ReadEntries(f, pos + Len(b), FromBytes(b), n, <<>>, ofSequences)
ReadTable(f, pos, n, ofSequences) ==
    ReadFirst(f, pos, n, ofSequences, FRead(f, pos, 4))

\* line 45 and line 47: the absolute positions the constructor seeks to
\* (a slip: two 4-byte words are skipped before the count is read)
CountPosAfterTwoWords(t, s) == t + s + 24
CountPos(t, s) == t + s + 16
TablePos(t, s) == t + s + 32

Parsed(exc, ttl, n, ho, so) ==
    [exc |-> exc, title |-> ttl, n |-> n,
     header_offsets |-> ho, sequence_offsets |-> so]

\* lines 55-59, the header table ht in hand
ParseSequenceTable(f, titleBytes, n, ht) ==
    Parsed("", Str(titleBytes), n, ht.table, ReadTable(f, ht.pos, n, TRUE).table)

\* lines 46-53, the lengths t and s in hand
ParseCount(f, titleBytes, t, s, n) ==
    ParseSequenceTable(f, titleBytes, n, ReadTable(f, TablePos(t, s), n, FALSE))
ParseTables(f, titleBytes, t, s) ==
    ParseCount(f, titleBytes, t, s, FromBytes(FRead(f, CountPos(t, s), 4)))

\* lines 42-44: the title is decoded, the timestamp's length read behind it
ParseTitle(f, tb, titleBytes) ==
    IF ~IsAscii(titleBytes) THEN Parsed("UnicodeDecodeError", None, 0, <<>>, <<>>)
    ELSE ParseTables(f, titleBytes, FromBytes(tb),
                     FromBytes(FRead(f, 8 + Len(tb) + Len(titleBytes), 4)))

\* lines 40-42
ParseLength(f, tb) == ParseTitle(f, tb, FRead(f, 8 + Len(tb), FromBytes(tb)))

\* lines 40-59
ParseIndex(f) == ParseLength(f, FRead(f, 8, 4))

-----------------------------------------------------------------------------
(* The identifier dictionary: (key, value) pairs in insertion order *)

DictHas(d, k) == \E i \in 1..Len(d) : d[i][1] = k
DictGet(d, k) == d[CHOOSE i \in 1..Len(d) : d[i][1] = k][2]
DictKeys(d) == [i \in 1..Len(d) |-> d[i][1]]
\* d[k] = v: a key already there keeps its place and takes the new value
DictSet(d, k, v) ==
    IF DictHas(d, k)
    THEN [i \in 1..Len(d) |-> IF d[i][1] = k THEN <<k, v>> ELSE d[i]]
    ELSE Append(d, <<k, v>>)

\* lines 75-76: a list is not hashable and cannot be a key
RECURSIVE InsertAll(_, _, _, _)
InsertAll(d, s, i, v) ==
    IF i > Len(s) THEN [exc |-> "", dict |-> d]
    ELSE IF ~IsStr(s[i]) THEN [exc |-> "TypeError", dict |-> d]
    ELSE InsertAll(DictSet(d, s[i], v), s, i + 1, v)

\* lines 70-76
RECURSIVE ReadHeaders(_, _, _, _, _, _)
ReadInserted(hf, ho, so, split, j, ins) ==
    IF ins.exc # "" THEN ins
    ELSE ReadHeaders(hf, ho, so, split, j + 1, ins.dict)
ReadDecoded(hf, ho, so, split, j, d, dec) ==
    IF dec.status # "done" THEN [exc |-> dec.status, dict |-> d]
    ELSE ReadInserted(hf, ho, so, split, j, InsertAll(d, dec.r, 1, so[j]))
ReadHeaders(hf, ho, so, split, j, d) ==
    IF j > Len(ho) THEN [exc |-> "", dict |-> d]
    ELSE ReadDecoded(hf, ho, so, split, j, d,
                     vs_to_str(FRead(hf, ho[j][1], ho[j][2]), split))

-----------------------------------------------------------------------------
(* Lookup *)

\* lines 87-91: the entry of the first blob that holds the identifier's
\* bytes, None when the loop ends without a return
RECURSIVE ScanPosition(_, _, _, _, _)
ScanPosition(hf, ho, so, seqid, j) ==
    IF j > Len(ho) THEN None
    ELSE IF Contains(FRead(hf, ho[j][1], ho[j][2]), seqid.chars)
    THEN Tuple(so[j])
    ELSE ScanPosition(hf, ho, so, seqid, j + 1)

\* lines 84-91
GetPosition(eager, d, hf, ho, so, seqid) ==
    IF eager
    THEN IF DictHas(d, seqid) THEN [exc |-> "", value |-> Tuple(DictGet(d, seqid))]
         ELSE [exc |-> "KeyError", value |-> None]
    ELSE [exc |-> "", value |-> ScanPosition(hf, ho, so, seqid, 1)]

\* lines 103-107: syn is assigned at every blob that holds the identifier's
\* bytes and the loop runs to the end of the table
RECURSIVE ScanSynonyms(_, _, _, _, _, _)
ScanDecoded(hf, ho, split, seqid, j, dec) ==
    IF dec.status # "done" THEN [exc |-> dec.status, value |-> None]
    ELSE ScanSynonyms(hf, ho, split, seqid, j + 1, List(dec.r))
ScanBlob(hf, ho, split, seqid, j, syn, b) ==
    IF Contains(b, seqid.chars)
    THEN ScanDecoded(hf, ho, split, seqid, j, vs_to_str(b, split))
    ELSE ScanSynonyms(hf, ho, split, seqid, j + 1, syn)
ScanSynonyms(hf, ho, split, seqid, j, syn) ==
    IF j > Len(ho) THEN [exc |-> "", value |-> syn]
    ELSE ScanBlob(hf, ho, split, seqid, j, syn, FRead(hf, ho[j][1], ho[j][2]))

\* line 108: return syn, never assigned when no blob matched
ReturnSyn(res) ==
    IF res.exc = "" /\ res.value.kind = "none"
    THEN [exc |-> "UnboundLocalError", value |-> None]
    ELSE res

\* line 101
SameEntry(d, seqid) ==
    LET same(k) == DictGet(d, k) = DictGet(d, seqid)
    IN  SelectSeq(DictKeys(d), same)

\* lines 100-108
Synonyms(eager, d, hf, ho, split, seqid) ==
    IF eager
    THEN IF ~DictHas(d, seqid) THEN [exc |-> "KeyError", value |-> None]
         ELSE [exc |-> "", value |-> List(SameEntry(d, seqid))]
    ELSE ReturnSyn(ScanSynonyms(hf, ho, split, seqid, 1, None))

-----------------------------------------------------------------------------
(* Sequence access *)

\* lines 15-16, as code points
PROTEIN_CODE == <<45, 65, 66, 67, 68, 69, 70, 71, 72, 73, 75, 76, 77,
                  78, 80, 81, 82, 83, 84, 86, 87, 88, 89, 90, 85, 42, 79, 74>>

\* line 118
Translate(byte_seq) == [i \in 1..Len(byte_seq) |-> PROTEIN_CODE[byte_seq[i] + 1]]

\* lines 117-118: a byte past the table has no symbol
TranslateAll(byte_seq) ==
    IF \E i \in 1..Len(byte_seq) : byte_seq[i] >= Len(PROTEIN_CODE)
    THEN [exc |-> "IndexError", value |-> None]
    ELSE [exc |-> "", value |-> Str(Translate(byte_seq))]

\* lines 116-118: None has no pos[0]
GetSeqByPosition(sf, pos) ==
    IF pos.kind # "tuple" THEN [exc |-> "TypeError", value |-> None]
    ELSE TranslateAll(FRead(sf, pos.at[1], pos.at[2]))

\* lines 142-143 of __next__: the bytes of the entry, decoded as ASCII text
DecodeAscii(b) ==
    IF IsAscii(b) THEN [exc |-> "", value |-> Str(b)]
    ELSE [exc |-> "UnicodeDecodeError", value |-> None]
NextSeq(sf, entry) == DecodeAscii(FRead(sf, entry[1], entry[2]))

-----------------------------------------------------------------------------
(* The handle's operations *)

\* What a call gave back: the exception raised ("" for none), the fields of
\* the record returned, and two notes of the call itself: its argument and
\* the value __get_position handed to get_seq
Res(op, arg, exc, seq, id, ids, pos) ==
    [op |-> op, arg |-> arg, exc |-> exc, seq |-> seq, id |-> id, ids |-> ids,
     pos |-> pos]
Raised(op, arg, exc) == Res(op, arg, exc, None, None, None, None)

\* iter_coord before the first __iter__: the attribute does not exist
NoCoord == -1

\* lines 60-61
LoadHeaders(eager, hf, split, p) ==
    IF p.exc = "" /\ eager
    THEN ReadHeaders(hf, p.header_offsets, p.sequence_offsets, split, 1, <<>>)
    ELSE [exc |-> p.exc, dict |-> <<>>]

Constructed(p, rh) ==
    /\ pc' = IF rh.exc = "" THEN "open" ELSE "failed"
    /\ title' = p.title
    /\ sequence_number' = p.n
    /\ header_offsets' = p.header_offsets
    /\ sequence_offsets' = p.sequence_offsets
    /\ header_dict' = rh.dict
    /\ result' = Raised("__init__", None, rh.exc)

Parsing(p) == Constructed(p, LoadHeaders(load_headers, headers, split_headers, p))

\* lines 18-61.  An exception leaves the caller without a handle.
Construct ==
    /\ pc = "new"
    /\ Parsing(ParseIndex(index))
    /\ UNCHANGED <<index, sequence, headers, load_headers, split_headers,
                   fixture, iter_coord, yielded, previous, decoderVars>>

\* lines 128-131, the sequence and the synonyms in hand
GetSeqRecord(seqid, pos, sq, syn) ==
    IF syn.exc # "" THEN [Raised("get_seq", seqid, syn.exc) EXCEPT !.pos = pos.value]
    ELSE Res("get_seq", seqid, "", sq.value, seqid, syn.value, pos.value)

\* line 127, the sequence in hand
GetSeqDecoded(seqid, pos, sq) ==
    IF sq.exc # "" THEN [Raised("get_seq", seqid, sq.exc) EXCEPT !.pos = pos.value]
    ELSE GetSeqRecord(seqid, pos, sq,
                      Synonyms(load_headers, header_dict, headers,
                               header_offsets, split_headers, seqid))

\* line 127, the position in hand
GetSeqAt(seqid, pos) ==
    IF pos.exc # "" THEN Raised("get_seq", seqid, pos.exc)
    ELSE GetSeqDecoded(seqid, pos, GetSeqByPosition(sequence, pos.value))

\* lines 120-131: the record returned, or the exception raised
GetSeqResult(seqid) ==
    GetSeqAt(seqid, GetPosition(load_headers, header_dict, headers,
                                header_offsets, sequence_offsets, seqid))

get_seq(seqid) ==
    /\ pc = "open"
    /\ result' = GetSeqResult(seqid)
    /\ UNCHANGED <<index, sequence, headers, load_headers, split_headers,
                   fixture, pc, title, sequence_number, header_offsets,
                   sequence_offsets, header_dict, iter_coord, yielded, previous,
                   decoderVars>>

\* lines 134-136
Iter ==
    /\ pc = "open"
    /\ iter_coord' = 0
    /\ result' = Raised("__iter__", None, "")
    /\ previous' = yielded
    /\ yielded' = <<>>
    /\ UNCHANGED <<index, sequence, headers, load_headers, split_headers,
                   fixture, pc, title, sequence_number, header_offsets,
                   sequence_offsets, header_dict, decoderVars>>

\* lines 142-151, the sequence and the decoded header in hand
NextRecord(sq, dec) ==
    IF sq.exc # "" THEN Raised("__next__", None, sq.exc)
    ELSE IF dec.status # "done" THEN Raised("__next__", None, dec.status)
    ELSE IF Len(dec.r) = 0 THEN Raised("__next__", None, "IndexError")
    ELSE Res("__next__", None, "", sq.value, dec.r[1], List(dec.r), None)

NextAt(so, ho) ==
    NextRecord(NextSeq(sequence, so),
               vs_to_str(FRead(headers, ho[1], ho[2]), split_headers))

\* lines 138-151: the record of the step, or the exception that ends it
NextResult ==
    IF iter_coord = NoCoord THEN Raised("__next__", None, "AttributeError")
    ELSE IF iter_coord >= sequence_number THEN Raised("__next__", None, "StopIteration")
    ELSE NextAt(sequence_offsets[iter_coord + 1], header_offsets[iter_coord + 1])

Stepped(res) ==
    /\ result' = res
    /\ iter_coord' = IF res.exc = "" THEN iter_coord + 1 ELSE iter_coord
    /\ yielded' = IF res.exc = ""
                  THEN Append(yielded, [ids |-> res.ids, seq |-> res.seq])
                  ELSE yielded

Next__ ==
    /\ pc = "open"
    /\ Stepped(NextResult)
    /\ UNCHANGED <<index, sequence, headers, load_headers, split_headers,
                   fixture, pc, title, sequence_number, header_offsets,
                   sequence_offsets, header_dict, previous, decoderVars>>

\* one pass through the loop of _vs_to_str (lines 163-188)
VsStepped(st) ==
    /\ vs_pc' = st.status
    /\ looked' = st.looked
    /\ r' = st.r
    /\ vs_it' = st.it
VsStep ==
    /\ vs_pc = "loop"
    /\ VsStepped(VsBody(vs_s, vs_split, looked, r))
    /\ UNCHANGED <<vs_s, vs_split, handleVars>>

-----------------------------------------------------------------------------
(* The inputs: the files a handle is opened on, and the blobs decoded *)

MaxSeqs == 2
MaxFields == 3
MaxPieces == 4
MaxTitleLen == 2
MaxStampLen == 2

RECURSIVE JoinUpTo(_, _)
JoinUpTo(ss, n) == IF n = 0 THEN <<>> ELSE JoinUpTo(ss, n - 1) \o ss[n]
\* the byte strings of ss, one after the other
JoinAll(ss) == JoinUpTo(ss, Len(ss))

RECURSIVE SumUpTo(_, _)
SumUpTo(ns, n) == IF n = 0 THEN 0 ELSE SumUpTo(ns, n - 1) + ns[n]

\* a 4-byte big-endian integer, as makeblastdb writes it
U32(n) == <<(n \div 16777216) % 256, (n \div 65536) % 256, (n \div 256) % 256, n % 256>>

\* The index file: version and type (8 bytes), the title and the timestamp
\* with their lengths, then 4-byte words
BuildIndex(titleBytes, stampBytes, words) ==
    <<0, 0, 0, 4, 0, 0, 0, 1>>
        \o U32(Len(titleBytes)) \o titleBytes
        \o U32(Len(stampBytes)) \o stampBytes
        \o JoinAll([i \in 1..Len(words) |-> U32(words[i])])

\* 'testdb_01 ' and '2016-01-01'
TitleText == <<116, 101, 115, 116, 100, 98, 95, 48, 49, 32>>
StampText == <<50, 48, 49, 54, 45, 48, 49, 45, 48, 49>>

\* a Visible String field in the short form
ShortField(payload) == <<Tag, Len(payload)>> \o payload

IdA == <<97>>
IdB == <<98>>
IdAB == <<97, 32, 98>>
IdZ == <<122>>
\* 'lcl|seq1'
IdLcl == <<108, 99, 108, 124, 115, 101, 113, 49>>
Filler == <<48>>

\* b'\x1A\x09lcl|seq1\x1A\x09BL_ORD_ID', and the same with the length 8
ExampleBlob == <<Tag, 9>> \o IdLcl \o <<Tag, 9>> \o Marker
ExampleBlob8 == <<Tag, 8>> \o IdLcl \o <<Tag, 9>> \o Marker
\* 0x1A 0x82 0x01 0x00 and 256 payload bytes, then one more field
LongExample == <<Tag, 130, 1, 0>> \o [i \in 1..256 |-> 97] \o ShortField(IdB)

HeaderItems == {ShortField(IdA), ShortField(IdB), ShortField(IdAB),
                ShortField(Marker), Filler}
BlobsOf(items, k) == {JoinAll(f) : f \in [1..k -> items]}
\* a tag with no descriptor behind it, and a payload that is not ASCII
MalformedBlobs == {<<Tag>>, <<Tag, 1, 200>>}
\* a field 'aBL_ORD_ID', a filler byte and a field 'b'
EmbeddedMarkerBlob == ShortField(IdA \o Marker) \o Filler \o ShortField(IdB)
WideBlobs == UNION {BlobsOf(HeaderItems, k) : k \in 0..MaxFields}
                 \cup {ExampleBlob, ExampleBlob8, EmbeddedMarkerBlob}
                 \cup MalformedBlobs
SmallBlobs == {ShortField(IdA),
               ShortField(IdA) \o Filler \o ShortField(IdB),
               ShortField(IdAB),
               Filler}

\* a database of one record with any blob, or of several with few blobs;
\* record k of several holds the sequence bytes <<k, 27>>
Databases ==
    {<<>>} \cup {<<[blob |-> b, seq |-> <<1, 27>>]>> : b \in WideBlobs}
           \cup UNION {{[k \in 1..n |-> [blob |-> f[k], seq |-> <<k, 27>>]]
                            : f \in [1..n -> SmallBlobs]} : n \in 2..MaxSeqs}

\* the offsets from..., each the previous plus the next length
Cumulative(from, lens) == [i \in 1..(Len(lens) + 1) |-> from + SumUpTo(lens, i - 1)]

HeaderFile(db) == JoinAll([k \in 1..Len(db) |-> db[k].blob])
\* a leading NUL, and a NUL after every sequence
SequenceFile(db) == <<0>> \o JoinAll([k \in 1..Len(db) |-> db[k].seq \o <<0>>])
IndexFile(db) ==
    BuildIndex(SubSeq(TitleText, 1, 6), StampText,
               <<Len(db), 0, 77, 2>>
                   \o Cumulative(0, [k \in 1..Len(db) |-> Len(db[k].blob)])
                   \o Cumulative(1, [k \in 1..Len(db) |-> Len(db[k].seq) + 1]))

SeqIds == {Str(IdA), Str(IdB), Str(IdAB), Str(IdZ)}
Splits == {"space", "none"}

DecoderIdle ==
    /\ vs_s = <<>> /\ vs_split = "none" /\ vs_pc = "idle"
    /\ looked = 0 /\ r = <<>> /\ vs_it = NoField

Unopened ==
    /\ pc = "new"
    /\ title = None
    /\ sequence_number = 0
    /\ header_offsets = <<>> /\ sequence_offsets = <<>>
    /\ header_dict = <<>>
    /\ iter_coord = NoCoord
    /\ result = Raised("", None, "")
    /\ yielded = <<>> /\ previous = <<>>

\* a database on disk and the arguments of the constructor
Init ==
    /\ \E db \in Databases :
        /\ fixture = [kind |-> "db", db |-> db]
        /\ index = IndexFile(db)
        /\ headers = HeaderFile(db)
        /\ sequence = SequenceFile(db)
    /\ load_headers \in BOOLEAN
    /\ split_headers \in Splits
    /\ Unopened
    /\ DecoderIdle

Next == Construct \/ (\E seqid \in SeqIds : get_seq(seqid)) \/ Iter \/ Next__

Spec == Init /\ [][Next]_vars

\* Index files alone: any title and timestamp length, any words where the
\* format has fields the reader skips, any non-decreasing offsets
OffsetValues == {0, 1, 3, 300}
SkippedWords == {<<0, 0, 0>>, <<9, 8, 7>>}
NonDecreasing(n) ==
    {f \in [1..n -> OffsetValues] : \A i \in 1..(n - 1) : f[i] <= f[i + 1]}
IndexFixture(n, t, s, sk, h, q) ==
    [kind |-> "index", title |-> SubSeq(TitleText, 1, t),
     stamp |-> SubSeq(StampText, 1, s), words |-> <<n>> \o sk \o h \o q]
\* T = 10, two sequences, offsets [0,20,45] and [0,31,67]
ExampleIndex ==
    [kind |-> "index", title |-> TitleText, stamp |-> StampText,
     words |-> <<2, 0, 0, 0, 0, 20, 45, 0, 31, 67>>]
InitIndex ==
    /\ \/ \E n \in 0..MaxSeqs, t \in 0..MaxTitleLen, s \in 0..MaxStampLen :
            \E sk \in SkippedWords, h, q \in NonDecreasing(n + 1) :
                fixture = IndexFixture(n, t, s, sk, h, q)
       \/ fixture = ExampleIndex
    /\ index = BuildIndex(fixture.title, fixture.stamp, fixture.words)
    /\ headers = <<>>
    /\ sequence = <<>>
    /\ load_headers = FALSE
    /\ split_headers = "space"
    /\ Unopened
    /\ DecoderIdle

NextIndex == Construct

SpecIndex == InitIndex /\ [][NextIndex]_vars

\* Blobs alone, also malformed ones: any run of a few of these pieces
VsPieces == {<<Tag>>, <<1>>, <<2>>, <<9>>, <<129>>, <<97>>, <<32>>, Marker}
VsInputs == UNION {BlobsOf(VsPieces, k) : k \in 0..MaxPieces}
                \cup {ExampleBlob, ExampleBlob8, LongExample}

InitVs ==
    /\ vs_s \in VsInputs
    /\ vs_split \in Splits
    /\ vs_pc = "loop"
    /\ looked = 0
    /\ r = <<>>
    /\ vs_it = NoField
    /\ fixture = [kind |-> "blob"]
    /\ index = <<>> /\ headers = <<>> /\ sequence = <<>>
    /\ load_headers = FALSE
    /\ split_headers = "space"
    /\ Unopened

NextVs == VsStep

SpecVs == InitVs /\ [][NextVs]_vars

-----------------------------------------------------------------------------
(* The index parser (SpecIndex) *)

\* the words the index file was written with: the count, three words the
\* reader skips, the header offsets h(0..n), the sequence offsets q(0..n)
StoredCount == fixture.words[1]
StoredH(k) == fixture.words[5 + k]
StoredQ(k) == fixture.words[5 + StoredCount + 1 + k]

\* entries in ascending start order, none reaching into the next
Ordered(table) ==
    \A k \in 1..(Len(table) - 1) :
        /\ table[k][1] <= table[k + 1][1]
        /\ table[k][1] + table[k][2] <= table[k + 1][1]

\* C5: after construction from an index that declares N sequences and stores
\* the non-decreasing offsets h[0..N] and q[0..N], both tables have N
\* entries, header entry k is (h[k], h[k+1]-h[k]) and sequence entry k is
\* (q[k], q[k+1]-q[k]-1), the entries ascend by start and do not overlap, and
\* the offsets [0,20,45] and [0,31,67] give [(0,20),(20,25)] and
\* [(0,30),(31,35)].
C5_OffsetTables ==
    pc = "open" =>
        /\ sequence_number = StoredCount
        /\ Len(header_offsets) = StoredCount
        /\ Len(sequence_offsets) = StoredCount
        /\ \A k \in 1..StoredCount :
            /\ header_offsets[k] = <<StoredH(k - 1), StoredH(k) - StoredH(k - 1)>>
            /\ sequence_offsets[k] =
                   <<StoredQ(k - 1), StoredQ(k) - StoredQ(k - 1) - 1>>
        /\ Ordered(header_offsets)
        /\ Ordered(sequence_offsets)
        /\ fixture = ExampleIndex =>
            /\ header_offsets = <<<<0, 20>>, <<20, 25>>>>
            /\ sequence_offsets = <<<<0, 30>>, <<31, 35>>>>

\* the example index has been parsed into its two tables of two entries
C5_Witness ==
    /\ pc = "open"
    /\ fixture = ExampleIndex
    /\ Len(header_offsets) = 2
    /\ sequence_offsets[2] = <<31, 35>>

\* C8 as claimed: the count is the word behind the timestamp and two skipped
\* words, the header table starts behind the count and two more skipped
\* words, the sequence table right behind the count+1 header offsets.
C8_Claimed ==
    pc = "open" =>
        /\ sequence_number = fixture.words[3]
        /\ sequence_number > 0 =>
            /\ header_offsets[1][1] = fixture.words[6]
            /\ sequence_offsets[1][1] = fixture.words[6 + sequence_number + 1]

\* C8, amended: for every title length T and timestamp length S the count is
\* the word right behind the timestamp (offset T+S+16), the header table
\* starts behind the count and three skipped words (offset T+S+32), and the
\* sequence table starts right behind the count+1 header offsets.
C8_Layout ==
    pc = "open" =>
        /\ sequence_number = FromBytes(SubSeq(index,
               Len(fixture.title) + Len(fixture.stamp) + 17,
               Len(fixture.title) + Len(fixture.stamp) + 20))
        /\ sequence_number = fixture.words[1]
        /\ sequence_number > 0 =>
            /\ header_offsets[1][1] = FromBytes(SubSeq(index,
                   Len(fixture.title) + Len(fixture.stamp) + 33,
                   Len(fixture.title) + Len(fixture.stamp) + 36))
            /\ header_offsets[1][1] = fixture.words[5]
            /\ sequence_offsets[1][1] = fixture.words[5 + sequence_number + 1]

\* an index with a title, a timestamp and two sequences has been parsed, its
\* skipped words differing from the count and from the first offsets
C8_Witness ==
    /\ pc = "open"
    /\ Len(fixture.title) = 2
    /\ Len(fixture.stamp) = 1
    /\ sequence_number = 2
    /\ fixture.words[3] # 2
    /\ header_offsets[1][1] = 1
    /\ sequence_offsets[1][1] = 3

-----------------------------------------------------------------------------
(* The handle (Spec) *)

\* the header blob and the stored sequence bytes of record k
BlobOf(k) == FRead(headers, header_offsets[k][1], header_offsets[k][2])
BytesOf(k) == FRead(sequence, sequence_offsets[k][1], sequence_offsets[k][2])

WellFormed == \A k \in 1..Len(fixture.db) : fixture.db[k].blob \notin MalformedBlobs

\* C1: the residue string get_seq returns for an identifier of record k is
\* the string the k-th step of iteration returned, and both are the bytes of
\* sequence entry k translated through PROTEIN_CODE.
C1_Claimed ==
    \A k \in 1..Len(yielded) :
        (/\ pc = "open"
         /\ result.op = "get_seq"
         /\ result.exc = ""
         /\ result.pos = Tuple(sequence_offsets[k]))
            => /\ result.seq = Str(Translate(BytesOf(k)))
               /\ yielded[k].seq = result.seq

\* C2: iterating a valid database of N records, whose blobs decode to zero,
\* one or several identifiers, every step either returns the pair of the
\* next index or, after exactly N pairs, signals StopIteration; a pass that
\* follows a complete pass returns the same N pairs.
C2_Claimed ==
    (/\ pc = "open"
     /\ WellFormed
     /\ iter_coord # NoCoord
     /\ result.op = "__next__")
        => /\ result.exc \in {"", "StopIteration"}
           /\ result.exc = "StopIteration" => Len(yielded) = sequence_number
           /\ \A k \in 1..Len(yielded) :
                  yielded[k].ids = List(vs_to_str(BlobOf(k), split_headers).r)
           /\ (result.exc = "StopIteration" /\ Len(previous) = sequence_number)
                  => yielded = previous

\* the identifier strings of a decoded list, whether it holds them or lists
\* of them
RECURSIVE Flat(_, _)
Flat(items, n) ==
    IF n = 0 THEN {}
    ELSE Flat(items, n - 1) \cup
             (IF IsStr(items[n]) THEN {items[n]}
              ELSE {items[n].items[i] : i \in 1..Len(items[n].items)})
Identifiers(blob) ==
    IF vs_to_str(blob, split_headers).status = "done"
    THEN Flat(vs_to_str(blob, split_headers).r,
              Len(vs_to_str(blob, split_headers).r))
    ELSE {}
AllIdentifiers == UNION {Identifiers(fixture.db[k].blob) : k \in 1..Len(fixture.db)}
\* id lies in no other identifier of the database
NoCollision(id) ==
    \A other \in AllIdentifiers : other # id => ~Contains(other.chars, id.chars)

\* C3: for every identifier the decoder takes from a header blob and that is
\* no substring of another one, the handle that loaded the headers has it
\* in its dictionary with the entry the scan of the header blobs returns;
\* this for every database, also one that names an identifier in several
\* records, and for both split modes.
C3_Claimed ==
    (pc # "new" /\ load_headers /\ WellFormed) =>
        \A id \in AllIdentifiers :
            NoCollision(id) =>
                /\ pc = "open"
                /\ DictHas(header_dict, id)
                /\ Tuple(DictGet(header_dict, id)) =
                       ScanPosition(headers, header_offsets, sequence_offsets, id, 1)

NoMarker(v) ==
    IF IsStr(v) THEN ~Contains(v.chars, Marker)
    ELSE \A i \in 1..Len(v.items) :
             IsStr(v.items[i]) => ~Contains(v.items[i].chars, Marker)

\* no string with 'BL_ORD_ID' in it: not among the keys of the dictionary,
\* not in the list a call returned (the synonyms of get_seq, the decoded
\* list of an iteration step), not in a record iteration returned earlier
MarkerNowhere ==
    /\ \A i \in 1..Len(header_dict) : NoMarker(header_dict[i][1])
    /\ IsList(result.ids) => NoMarker(result.ids)
                             /\ \A i \in 1..Len(result.ids.items) :
                                    NoMarker(result.ids.items[i])
    /\ \A k \in 1..Len(yielded) :
           \A i \in 1..Len(yielded[k].ids.items) : NoMarker(yielded[k].ids.items[i])

\* the list iteration returned for the only record of a database whose
\* header blob is blob, decoded with split mode none
DecodedAlone(blob) ==
    /\ Len(fixture.db) = 1
    /\ fixture.db[1].blob = blob
    /\ split_headers = "none"
    /\ result.op = "__next__"
    /\ result.exc = ""

\* C4 as claimed: no string that holds 'BL_ORD_ID' is in a decoded list, in
\* the dictionary, in the synonyms of get_seq or in a list of iteration, and
\* 0x1A 0x09 'lcl|seq1' 0x1A 0x09 'BL_ORD_ID' decodes to ["lcl|seq1"].
C4_Claimed ==
    /\ MarkerNowhere
    /\ DecodedAlone(ExampleBlob) => result.ids = List(<<Str(IdLcl)>>)

\* C4, amended: the same, but the example blob declares a payload of 9 bytes
\* and decodes to the one string 'lcl|seq1' followed by the byte 0x1A; with
\* the length byte 0x08 it decodes to ["lcl|seq1"].
C4_NoMarker ==
    /\ MarkerNowhere
    /\ DecodedAlone(ExampleBlob) => result.ids = List(<<Str(IdLcl \o <<Tag>>)>>)
    /\ DecodedAlone(ExampleBlob8) => result.ids = List(<<Str(IdLcl)>>)

\* the headers hold a field with the marker in it, and iteration has
\* returned the identifiers of that record, which are in the dictionary too
C4_Witness ==
    /\ pc = "open"
    /\ load_headers
    /\ headers = EmbeddedMarkerBlob
    /\ Len(header_dict) = 1
    /\ result.op = "__next__"
    /\ result.exc = ""
    /\ result.ids = List(<<Str(IdB)>>)

\* the kept fields of a blob, whole
Fields(blob) == vs_to_str(blob, "none").r
\* every piece between spaces of every kept field, in order
Pieces(blob) ==
    JoinAll([i \in 1..Len(Fields(blob)) |-> SplitSpace(Fields(blob)[i].chars)])

\* C6: with split mode space the decoded list is flat and holds, each as one
\* string, the pieces between spaces of every kept field, so that the
\* dictionary of a handle that loads the headers can take each as a key and
\* a returned list holds each as an element; with split mode none it holds
\* every kept field whole.
C6_Claimed ==
    (pc # "new" /\ WellFormed) =>
        /\ pc = "open"
        /\ (result.op = "__next__" /\ result.exc = "") =>
               result.ids = List(IF split_headers = "space"
                                 THEN Pieces(BlobOf(iter_coord))
                                 ELSE Fields(BlobOf(iter_coord)))
        /\ load_headers =>
               \A k \in 1..Len(header_offsets) :
                   \A i \in 1..Len(Pieces(BlobOf(k))) :
                       split_headers = "space" =>
                           DictHas(header_dict, Pieces(BlobOf(k))[i])

\* C7: get_seq with an identifier that no header blob holds ends, with the
\* headers loaded or not, in the not-found outcome (the KeyError of the
\* dictionary), and no position went on to sequence decoding.
NoRecordHolds(id) ==
    \A k \in 1..Len(header_offsets) : ~Contains(BlobOf(k), id.chars)
C7_Claimed ==
    (/\ pc = "open"
     /\ result.op = "get_seq"
     /\ NoRecordHolds(result.arg))
        => result.exc = "KeyError"

\* the first record whose header blob holds the bytes of id
FirstHolding(id) ==
    Min({k \in 1..Len(header_offsets) : Contains(BlobOf(k), id.chars)})

\* C10: the synonyms get_seq attaches are the identifiers of the record whose
\* entry the lookup returned: without loaded headers the list decoded from
\* the first blob that holds the identifier, the blob of the returned
\* entry; with loaded headers the keys whose value is the returned entry.
C10_Claimed ==
    (/\ pc = "open"
     /\ result.op = "get_seq"
     /\ result.exc = "")
        => IF load_headers
           THEN result.ids = List(SameEntry(header_dict, result.arg))
                /\ result.pos = Tuple(DictGet(header_dict, result.arg))
           ELSE /\ result.pos = Tuple(sequence_offsets[FirstHolding(result.arg)])
                /\ result.ids =
                       List(vs_to_str(BlobOf(FirstHolding(result.arg)),
                                      split_headers).r)

-----------------------------------------------------------------------------
(* The decoder (SpecVs) *)

\* a pass of the loop has just decoded a field
FieldDecoded == vs_pc = "loop" /\ IsStr(vs_it.vs)

\* the end of the length descriptor of the field at start, and the length it
\* gives, read off the blob
DescriptorEnd(s, start) ==
    IF s[start + 2] < 128 THEN start + 2 ELSE start + 2 + (s[start + 2] % 128)
DeclaredLen(s, start) ==
    IF s[start + 2] < 128 THEN s[start + 2]
    ELSE FromBytes(Slice(s, start + 2, DescriptorEnd(s, start)))

\* C9: the payload of a field is the str_len bytes right behind its length
\* descriptor, in the short and in the long form, and the search for the
\* next tag resumes at the byte right behind the payload.
C9_Claimed ==
    (/\ FieldDecoded
     /\ DescriptorEnd(vs_s, vs_it.start) <= Len(vs_s)
     /\ DescriptorEnd(vs_s, vs_it.start) + DeclaredLen(vs_s, vs_it.start) <= Len(vs_s))
        => /\ vs_it.vs =
                  Str(SubSeq(vs_s, DescriptorEnd(vs_s, vs_it.start) + 1,
                             DescriptorEnd(vs_s, vs_it.start)
                                 + DeclaredLen(vs_s, vs_it.start)))
           /\ looked = DescriptorEnd(vs_s, vs_it.start)
                           + DeclaredLen(vs_s, vs_it.start)

=============================================================================
